---- MODULE Spec2Model ----
(***************************************************************************)
(* go-cleanarch: the Validator of src/cleanarch/cleanarch.go.              *)
(*                                                                         *)
(* A Go string is a sequence of one-character strings, so that             *)
(* strings.Split, strings.Contains, strings.HasSuffix and the Trim         *)
(* functions are computed character by character.  A Layer is one of the   *)
(* four constants of the source, or "" (the zero value).                   *)
(***************************************************************************)
EXTENDS Integers, Sequences, FiniteSets, TLC

VARIABLES
    alias,            \* Validator.alias: path segment -> Layer
    filesMetadata,    \* Validator.filesMetadata: path -> LayerMetadata
    pc,               \* where Validate is: idle, walk, imports, returned, panicked
    run,              \* number of Validate calls made on this Validator
    ignoreTests,      \* Validate's ignoreTests argument
    ignoredPackages,  \* Validate's ignoredPackages argument
    discovered,       \* history: the files of this run that parser.ParseFile parsed, in order
    path,             \* the callback's path, while in ImportsLoop
    importerMeta,     \* the callback's importerMeta, while in ImportsLoop
    imports,          \* the part of f.Imports ImportsLoop has not reached yet
    errors,           \* Validate's local errors slice
    result,           \* what Validate returned: (bool, []ValidationError, error)
    failure,          \* the discovery failure the run met: none, walk, parse
    parseCalls,       \* history: path -> number of ParseLayerMetadata calls made for it
    last              \* history: what the latest ImportsLoop iteration did

vars == <<alias, filesMetadata, pc, run, ignoreTests, ignoredPackages, discovered,
          path, importerMeta, imports, errors, result, failure, parseCalls, last>>

----------------------------------------------------------------------------
(* Bounds of the model. *)

\* entries one walk hands to the callback
MaxFiles == 2

\* Validate calls on one Validator
MaxRuns == 2

\* segments of an import path drawn by InitImport
MaxSegs == 3

----------------------------------------------------------------------------
(* Layers. *)

LayerDomain == "domain"

LayerApplication == "application"

LayerInfrastructure == "infrastructure"

LayerInterfaces == "interfaces"

\* the zero value of Layer
NoLayer == ""

\* layersHierarchy[l]; a Go map yields 0 for a key it does not hold
layersHierarchyInfraBelowInterfaces(l) ==
    CASE l = LayerDomain -> 1
      [] l = LayerApplication -> 2
      [] l = LayerInterfaces -> 4
      [] l = LayerInfrastructure -> 3
      [] OTHER -> 0

layersHierarchy(l) ==
    CASE l = LayerDomain -> 1
      [] l = LayerApplication -> 2
      [] l = LayerInterfaces -> 3
      [] l = LayerInfrastructure -> 4
      [] OTHER -> 0

----------------------------------------------------------------------------
(* package strings *)

HasSuffix(s, suffix) ==
    /\ Len(s) >= Len(suffix)
    /\ SubSeq(s, Len(s) - Len(suffix) + 1, Len(s)) = suffix

HasPrefix(s, prefix) ==
    /\ Len(s) >= Len(prefix)
    /\ SubSeq(s, 1, Len(prefix)) = prefix

Contains(s, substr) ==
    \E i \in 0..(Len(s) - Len(substr)) : SubSeq(s, i + 1, i + Len(substr)) = substr

TrimSuffix(s, suffix) ==
    IF HasSuffix(s, suffix) THEN SubSeq(s, 1, Len(s) - Len(suffix)) ELSE s

TrimPrefix(s, prefix) ==
    IF HasPrefix(s, prefix) THEN SubSeq(s, Len(prefix) + 1, Len(s)) ELSE s

\* strings.Split(s, sep) for a one-character sep
RECURSIVE Split(_, _)
Split(s, sep) ==
    LET at == {i \in 1..Len(s) : s[i] = sep}
    IN  IF at = {} THEN <<s>>
        ELSE LET i == CHOOSE j \in at : \A k \in at : j <= k
             IN  <<SubSeq(s, 1, i - 1)>> \o Split(SubSeq(s, i + 1, Len(s)), sep)

----------------------------------------------------------------------------
(* ParseLayerMetadata *)

\* LayerMetadata{}
ZeroMetadata == [Module |-> <<>>, Layer |-> NoLayer]

\* the inner loop over the alias map: the layer of the alias equal to pathPart
aliasLayer(pathPart, layer, aliases) ==
    IF pathPart \in DOMAIN aliases THEN aliases[pathPart] ELSE layer

\* the loop for i := len(pathParts) - 1; i >= 0; i--  (i here is the Go index + 1)
RECURSIVE partsLoop(_, _, _, _)
partsLoop(pathParts, i, metadata, aliases) ==
    IF i < 1 THEN metadata
    ELSE IF metadata.Layer # NoLayer
         THEN [metadata EXCEPT !.Module = pathParts[i]]
         ELSE partsLoop(pathParts, i - 1,
                        [metadata EXCEPT !.Layer = aliasLayer(pathParts[i], @, aliases)],
                        aliases)

\* the same loop run from the first segment to the last: the shallowest alias wins
\* and the module is the segment after it
RECURSIVE partsLoopForward(_, _, _, _)
partsLoopForward(pathParts, i, metadata, aliases) ==
    IF i > Len(pathParts) THEN metadata
    ELSE IF metadata.Layer # NoLayer
         THEN [metadata EXCEPT !.Module = pathParts[i]]
         ELSE partsLoopForward(pathParts, i + 1,
                        [metadata EXCEPT !.Layer = aliasLayer(pathParts[i], @, aliases)],
                        aliases)

ParseLayerMetadataForward(p, aliases) ==
    partsLoopForward(Split(p, "/"), 1, ZeroMetadata, aliases)

ParseLayerMetadata(p, aliases) ==
    LET pathParts == Split(p, "/")
    IN  partsLoop(pathParts, Len(pathParts), ZeroMetadata, aliases)

----------------------------------------------------------------------------
(* Validator.fileMetadata: the cache in front of ParseLayerMetadata.  The   *)
(* result carries the metadata returned, the map afterwards and whether     *)
(* ParseLayerMetadata was called.                                           *)

fileMetadataNoCacheCheck(cache, p) ==
    LET metadata == ParseLayerMetadata(p, alias)
    IN  [metadata |-> metadata,
         cache |-> [q \in DOMAIN cache \cup {p} |-> IF q = p THEN metadata ELSE cache[q]],
         parsed |-> TRUE]

fileMetadata(cache, p) ==
    IF p \in DOMAIN cache
    THEN [metadata |-> cache[p], cache |-> cache, parsed |-> FALSE]
    ELSE LET metadata == ParseLayerMetadata(p, alias)
         IN  [metadata |-> metadata,
              cache |-> [q \in DOMAIN cache \cup {p} |->
                            IF q = p THEN metadata ELSE cache[q]],
              parsed |-> TRUE]

\* parseCalls after one fileMetadata call
countParse(calls, p, parsed) ==
    IF ~parsed THEN calls
    ELSE [q \in DOMAIN calls \cup {p} |->
            IF q = p THEN (IF p \in DOMAIN calls THEN calls[p] + 1 ELSE 1)
            ELSE calls[q]]

----------------------------------------------------------------------------
(* The string literals of Validate and validateImport. *)

\* strings.HasSuffix(path, ".go")
goSuffix == <<".", "g", "o">>

\* strings.HasSuffix(path, "_test.go")
testSuffix == <<"_", "t", "e", "s", "t", ".", "g", "o">>

\* strings.Contains(path, "/vendor/")
vendorDir == <<"/", "v", "e", "n", "d", "o", "r", "/">>

\* strings.Contains(path, "/.")
hiddenDir == <<"/", ".">>

\* the double quote TrimSuffix and TrimPrefix remove
quote == <<"\"">>

----------------------------------------------------------------------------
(* The strings the inputs are built from. *)

modA == <<"m", "o", "d", "A">>

modB == <<"m", "o", "d", "B">>

modC == <<"m", "o", "d", "C">>

domain == <<"d", "o", "m", "a", "i", "n">>

application == <<"a", "p", "p", "l", "i", "c", "a", "t", "i", "o", "n">>

interfaces == <<"i", "n", "t", "e", "r", "f", "a", "c", "e", "s">>

infra == <<"i", "n", "f", "r", "a">>

infrastructure == <<"i", "n", "f", "r", "a", "s", "t", "r", "u", "c", "t", "u", "r", "e">>

thirdparty == <<"t", "h", "i", "r", "d", "p", "a", "r", "t", "y">>

lib == <<"l", "i", "b">>

db == <<"d", "b">>

api == <<"a", "p", "i">>

entity == <<"e", "n", "t", "i", "t", "y">>

user == <<"u", "s", "e", "r">>

vendor == <<"v", "e", "n", "d", "o", "r">>

dotIdea == <<".", "i", "d", "e", "a">>

userGo == <<"u", "s", "e", "r", ".", "g", "o">>

userTestGo == <<"u", "s", "e", "r", "_", "t", "e", "s", "t", ".", "g", "o">>

gatewayGo == <<"g", "a", "t", "e", "w", "a", "y", ".", "g", "o">>

serviceGo == <<"s", "e", "r", "v", "i", "c", "e", ".", "g", "o">>

badGo == <<"b", "a", "d", ".", "g", "o">>

xGo == <<"x", ".", "g", "o">>

readmeMd == <<"R", "E", "A", "D", "M", "E", ".", "m", "d">>

quotedModAInfra == <<"\"", "m", "o", "d", "A", "/", "i", "n", "f", "r", "a">>

----------------------------------------------------------------------------
(* Inputs: alias tables, walk entries, ignore lists. *)

Join2(a, b) == a \o <<"/">> \o b

Join3(a, b, c) == Join2(Join2(a, b), c)

Join4(a, b, c, d) == Join2(Join3(a, b, c), d)

\* an import spec's Path.Value written "..." in the source file
Quoted(s) == quote \o s \o quote

\* the alias table of the examples
StdAlias ==
    [k \in {domain, application, infra, interfaces} |->
        CASE k = domain -> LayerDomain
          [] k = application -> LayerApplication
          [] k = infra -> LayerInfrastructure
          [] k = interfaces -> LayerInterfaces]

\* the directory is called infrastructure, and infra is no alias
LongAlias ==
    [k \in {domain, application, infrastructure, interfaces} |->
        CASE k = domain -> LayerDomain
          [] k = application -> LayerApplication
          [] k = infrastructure -> LayerInfrastructure
          [] k = interfaces -> LayerInterfaces]

AliasTables == {StdAlias, LongAlias}

\* aliases that are also a module name and the empty segment, two of them for one
\* layer
OddAlias ==
    [k \in {domain, <<>>, modB, application, infrastructure} |->
        CASE k = domain -> LayerDomain
          [] k = <<>> -> LayerDomain
          [] k = modB -> LayerInterfaces
          [] k = application -> LayerApplication
          [] k = infrastructure -> LayerInfrastructure]

\* what filepath.Walk hands to the callback: fi is "file", "dir" or "nil" (Lstat
\* failed, as it does for a root that does not exist); parses is whether
\* parser.ParseFile succeeds; imports is f.Imports, each the Path.Value
Entry(p, fi, parses, imps) == [path |-> p, fi |-> fi, parses |-> parses, imports |-> imps]

Entries ==
    { Entry(Join3(modA, domain, userGo), "file", TRUE,
            <<Quoted(Join3(modA, infra, db)), Quoted(Join3(modB, domain, entity))>>),
      Entry(Join3(modA, infra, gatewayGo), "file", TRUE,
            <<Quoted(Join3(modB, interfaces, api)), Quoted(Join3(modB, domain, entity)),
              Quoted(Join2(interfaces, api))>>),
      Entry(Join3(modA, application, serviceGo), "file", TRUE,
            <<Quoted(Join2(domain, user)), Quoted(Join2(thirdparty, lib)),
              Quoted(Join3(modA, infra, db))>>),
      Entry(Join3(thirdparty, lib, xGo), "file", TRUE,
            <<Quoted(Join3(modA, infra, db))>>),
      Entry(Join2(domain, xGo), "file", TRUE,
            <<Quoted(Join3(modA, infra, db))>>),
      Entry(Join3(modA, domain, badGo), "file", FALSE, <<>>),
      Entry(Join3(modA, domain, userTestGo), "file", TRUE,
            <<Quoted(Join3(modA, infra, db))>>),
      Entry(Join4(modA, vendor, domain, xGo), "file", TRUE,
            <<Quoted(Join3(modA, infra, db))>>),
      Entry(Join4(modA, dotIdea, domain, xGo), "file", TRUE,
            <<Quoted(Join3(modA, infra, db))>>),
      Entry(Join2(modA, domain), "dir", TRUE, <<>>),
      Entry(Join3(modA, domain, readmeMd), "file", TRUE, <<>>),
      Entry(modC, "nil", FALSE, <<>>) }

IgnoreLists == { <<>>, <<modB>>, <<thirdparty, quotedModAInfra>> }

----------------------------------------------------------------------------
(* Validator.validateImport *)

\* fmt.Errorf("you cannot import %s Layer (%s) to %s Layer (%s)", ...)
IntraError(importMeta, importPath, importer, p) ==
    [format |-> "you cannot import",
     importLayer |-> importMeta.Layer, importPath |-> importPath,
     importerLayer |-> importer.Layer, path |-> p]

\* fmt.Errorf("trying to import %s Layer (%s) to %s Layer (%s) between %s and %s modules, ...")
CrossError(importMeta, importPath, importer, p) ==
    [format |-> "trying to import",
     importLayer |-> importMeta.Layer, importPath |-> importPath,
     importerLayer |-> importer.Layer, path |-> p,
     importModule |-> importMeta.Module, importerModule |-> importer.Module]

\* the rule with && where the source has ||
importErrorsBothDiffer(importMeta, importPath, importer, p) ==
    IF importMeta.Module = importer.Module
    THEN IF layersHierarchy(importMeta.Layer) > layersHierarchy(importer.Layer)
         THEN <<IntraError(importMeta, importPath, importer, p)>>
         ELSE <<>>
    ELSE IF importMeta.Layer # NoLayer
         THEN IF importMeta.Layer # LayerInterfaces /\ importer.Layer # LayerInfrastructure
              THEN <<CrossError(importMeta, importPath, importer, p)>>
              ELSE <<>>
         ELSE <<>>

\* the rule with an import target of empty Module left unchecked
importErrorsModuleRequired(importMeta, importPath, importer, p) ==
    IF importMeta.Module = importer.Module
    THEN IF layersHierarchy(importMeta.Layer) > layersHierarchy(importer.Layer)
         THEN <<IntraError(importMeta, importPath, importer, p)>>
         ELSE <<>>
    ELSE IF importMeta.Layer # NoLayer /\ importMeta.Module # <<>>
         THEN IF importMeta.Layer # LayerInterfaces \/ importer.Layer # LayerInfrastructure
              THEN <<CrossError(importMeta, importPath, importer, p)>>
              ELSE <<>>
         ELSE <<>>

\* the errors slice validateImport builds from the two metadata
importErrors(importMeta, importPath, importer, p) ==
    IF importMeta.Module = importer.Module
    THEN IF layersHierarchy(importMeta.Layer) > layersHierarchy(importer.Layer)
         THEN <<IntraError(importMeta, importPath, importer, p)>>
         ELSE <<>>
    ELSE IF importMeta.Layer # NoLayer
         THEN IF importMeta.Layer # LayerInterfaces \/ importer.Layer # LayerInfrastructure
              THEN <<CrossError(importMeta, importPath, importer, p)>>
              ELSE <<>>
         ELSE <<>>

\* importPath: imp.Path.Value with one trailing and one leading double quote removed
trimQuotes(value) == TrimPrefix(TrimSuffix(value, quote), quote)

validateImport(cache, value, importer, p) ==
    LET importPath == trimQuotes(value)
        fm == fileMetadata(cache, importPath)
    IN  [errors |-> importErrors(fm.metadata, importPath, importer, p),
         importPath |-> importPath,
         importMeta |-> fm.metadata,
         cache |-> fm.cache,
         parsed |-> fm.parsed]

----------------------------------------------------------------------------
(* Validator.Validate *)

\* if importerMeta.Layer == "" || importerMeta.Module == ""
unclassifiableLayerOnly(metadata) == metadata.Layer = NoLayer

unclassifiable(metadata) == metadata.Layer = NoLayer \/ metadata.Module = <<>>

\* the loop over ignoredPackages, done on the import path without its quotes
isIgnoredUnquoted(value, ignored) ==
    \E k \in 1..Len(ignored) : Contains(trimQuotes(value), ignored[k])

\* the loop over ignoredPackages: strings.Contains(imp.Path.Value, ignoredPackage)
isIgnored(value, ignored) ==
    \E k \in 1..Len(ignored) : Contains(value, ignored[k])

\* errors = append(errors, validationErrors...)
appendErrorsInFront(errs, validationErrors) == validationErrors \o errs

appendErrors(errs, validationErrors) == errs \o validationErrors

NoResult == [ok |-> FALSE, errors |-> <<>>, err |-> "none yet"]

NoImport == [kind |-> "none"]

\* NewValidator(alias): an empty filesMetadata map
NewValidator ==
    /\ alias \in AliasTables
    /\ filesMetadata = <<>>
    /\ pc = "idle"
    /\ run = 0
    /\ ignoreTests = FALSE
    /\ ignoredPackages = <<>>
    /\ discovered = <<>>
    /\ path = <<>>
    /\ importerMeta = ZeroMetadata
    /\ imports = <<>>
    /\ errors = <<>>
    /\ result = NoResult
    /\ failure = "none"
    /\ parseCalls = <<>>
    /\ last = NoImport

Init == NewValidator

\* Validate is called: errors := []ValidationError{} and filepath.Walk starts
ValidateClearingCache ==
    /\ pc \in {"idle", "returned"}
    /\ run < MaxRuns
    /\ run' = run + 1
    /\ ignoreTests' \in BOOLEAN
    /\ ignoredPackages' \in IgnoreLists
    /\ errors' = <<>>
    /\ discovered' = <<>>
    /\ result' = NoResult
    /\ last' = NoImport
    /\ pc' = "walk"
    /\ filesMetadata' = <<>>
    /\ UNCHANGED <<alias, path, importerMeta, imports, failure, parseCalls>>

Validate ==
    /\ pc \in {"idle", "returned"}
    /\ run < MaxRuns
    /\ run' = run + 1
    /\ ignoreTests' \in BOOLEAN
    /\ ignoredPackages' \in IgnoreLists
    /\ errors' = <<>>
    /\ discovered' = <<>>
    /\ result' = NoResult
    /\ last' = NoImport
    /\ pc' = "walk"
    /\ UNCHANGED <<alias, filesMetadata, path, importerMeta, imports, failure, parseCalls>>

\* the callback of filepath.Walk, up to ImportsLoop
WalkFn ==
    /\ pc = "walk"
    /\ Len(discovered) < MaxFiles
    /\ \E e \in Entries :
        /\ \A k \in 1..Len(discovered) : discovered[k].path # e.path
        /\ IF e.fi = "nil"
           THEN \* fi.IsDir() on a nil os.FileInfo: a nil pointer dereference
                /\ pc' = "panicked"
                /\ failure' = "walk"
                /\ UNCHANGED <<discovered, filesMetadata, path, importerMeta, imports,
                               parseCalls>>
           ELSE IF \/ e.fi = "dir"
                   \/ ~HasSuffix(e.path, goSuffix)
                   \/ (ignoreTests /\ HasSuffix(e.path, testSuffix))
                   \/ Contains(e.path, vendorDir)
                   \/ Contains(e.path, hiddenDir)
           THEN \* return nil: not a source file to check
                UNCHANGED <<pc, failure, discovered, filesMetadata, path, importerMeta,
                            imports, parseCalls>>
           ELSE IF ~e.parses
           THEN \* panic(err)
                /\ pc' = "panicked"
                /\ failure' = "parse"
                /\ UNCHANGED <<discovered, filesMetadata, path, importerMeta, imports,
                               parseCalls>>
           ELSE LET fm == fileMetadata(filesMetadata, e.path)
                IN  /\ discovered' = Append(discovered, e)
                    /\ filesMetadata' = fm.cache
                    /\ parseCalls' = countParse(parseCalls, e.path, fm.parsed)
                    /\ failure' = failure
                    /\ IF unclassifiable(fm.metadata)
                       THEN \* return nil: the file is skipped
                            UNCHANGED <<pc, path, importerMeta, imports>>
                       ELSE /\ pc' = "imports"
                            /\ path' = e.path
                            /\ importerMeta' = fm.metadata
                            /\ imports' = e.imports
    /\ UNCHANGED <<alias, run, ignoreTests, ignoredPackages, errors, result, last>>

\* one iteration of ImportsLoop
ImportStep ==
    /\ pc = "imports"
    /\ imports # <<>>
    /\ LET value == Head(imports)
       IN  IF isIgnored(value, ignoredPackages)
           THEN /\ last' = [kind |-> "ignored", value |-> value]
                /\ UNCHANGED <<filesMetadata, parseCalls, errors>>
           ELSE LET v == validateImport(filesMetadata, value, importerMeta, path)
                IN  /\ filesMetadata' = v.cache
                    /\ parseCalls' = countParse(parseCalls, v.importPath, v.parsed)
                    /\ errors' = appendErrors(errors, v.errors)
                    /\ last' = [kind |-> "checked", value |-> value,
                                importPath |-> v.importPath,
                                importMeta |-> v.importMeta,
                                importerMeta |-> importerMeta,
                                errors |-> v.errors]
    /\ imports' = Tail(imports)
    /\ UNCHANGED <<alias, pc, run, ignoreTests, ignoredPackages, discovered, path,
                   importerMeta, result, failure>>

\* ImportsLoop is over: the callback returns nil and its locals are gone
EndImports ==
    /\ pc = "imports"
    /\ imports = <<>>
    /\ pc' = "walk"
    /\ path' = <<>>
    /\ importerMeta' = ZeroMetadata
    /\ last' = NoImport
    /\ UNCHANGED <<alias, filesMetadata, run, ignoreTests, ignoredPackages, discovered,
                   imports, errors, result, failure, parseCalls>>

\* filepath.Walk returns what the callback returned, and the callback returns nil
walkErr == "nil"

\* the walk is over: if err != nil { return false, nil, err }; return len(errors) == 0, errors, nil
Return ==
    /\ pc = "walk"
    /\ pc' = "returned"
    /\ result' = IF walkErr # "nil"
                 THEN [ok |-> FALSE, errors |-> <<>>, err |-> walkErr]
                 ELSE [ok |-> Len(errors) = 0, errors |-> errors, err |-> "nil"]
    /\ UNCHANGED <<alias, filesMetadata, run, ignoreTests, ignoredPackages, discovered, path,
                   importerMeta, imports, errors, failure, parseCalls, last>>

Next == Validate \/ WalkFn \/ ImportStep \/ EndImports \/ Return

Spec == Init /\ [][Next]_vars

----------------------------------------------------------------------------
(* One iteration of ImportsLoop on its own: the first file of a run, which   *)
(* the callback has just classified, and one import drawn from every path of *)
(* up to MaxSegs segments.                                                   *)

Segs == {modA, modB, domain, application, interfaces, infra, infrastructure, <<>>}

SegSeqs == UNION {[1..n -> Segs] : n \in 1..MaxSegs}

RECURSIVE JoinAll(_)
JoinAll(segs) ==
    IF Len(segs) = 1 THEN segs[1] ELSE Join2(JoinAll(SubSeq(segs, 1, Len(segs) - 1)), segs[Len(segs)])

ImporterFiles == {Join3(modA, l, xGo) : l \in {domain, application, interfaces, infra, infrastructure}}

InitImport ==
    /\ alias \in AliasTables \cup {OddAlias}
    /\ ignoredPackages \in {<<>>, <<Join2(modB, domain)>>}
    /\ \E f \in ImporterFiles, segs \in SegSeqs :
        LET fm == fileMetadata(<<>>, f)
            e == Entry(f, "file", TRUE, <<Quoted(JoinAll(segs))>>)
        IN  /\ ~unclassifiable(fm.metadata)
            /\ discovered = <<e>>
            /\ filesMetadata = fm.cache
            /\ parseCalls = countParse(<<>>, f, fm.parsed)
            /\ path = f
            /\ importerMeta = fm.metadata
            /\ imports = e.imports
    /\ pc = "imports"
    /\ run = 1
    /\ ignoreTests = FALSE
    /\ errors = <<>>
    /\ result = NoResult
    /\ failure = "none"
    /\ last = NoImport

NextImport == ImportStep

SpecImport == InitImport /\ [][NextImport]_vars

----------------------------------------------------------------------------
(* The claims. *)

\* the order weights as the specification states them
ClaimOrder(l) ==
    CASE l = LayerDomain -> 1
      [] l = LayerApplication -> 2
      [] l = LayerInterfaces -> 3
      [] l = LayerInfrastructure -> 4

ClassifiedLayers == {LayerDomain, LayerApplication, LayerInterfaces, LayerInfrastructure}

\* the latest ImportsLoop iteration called validateImport
Checked == last.kind = "checked"

\* C1: an import within the importer's module (the importer having a Module and a
\* Layer) records a violation exactly when the imported layer's weight is greater
\* than the importer's, under Domain=1, Application=2, Interfaces=3,
\* Infrastructure=4; an import of the same or a lower layer records none.
C1_IntraModuleRule ==
    (/\ Checked
     /\ last.importerMeta.Module # <<>>
     /\ last.importerMeta.Layer \in ClassifiedLayers
     /\ last.importMeta.Module = last.importerMeta.Module)
    => /\ last.importMeta.Layer \in ClassifiedLayers
       /\ Len(last.errors) =
            (IF ClaimOrder(last.importMeta.Layer) > ClaimOrder(last.importerMeta.Layer)
             THEN 1 ELSE 0)
       /\ \A k \in 1..Len(last.errors) :
            /\ last.errors[k].format = "you cannot import"
            /\ errors # <<>>
            /\ errors[Len(errors)] = last.errors[k]

\* an interfaces file importing the infrastructure layer of its own module: a violation
C1_Witness ==
    /\ Checked
    /\ last.importMeta.Module = last.importerMeta.Module
    /\ last.importerMeta.Layer = LayerInterfaces
    /\ last.importMeta.Layer = LayerInfrastructure
    /\ Len(last.errors) = 1

\* C2: an import of another module (the import target having a Layer) records a
\* violation exactly when it is not the Interfaces layer imported into the
\* Infrastructure layer, whatever the weights; the same layer of another module
\* is a violation.
C2_CrossModuleRule ==
    (/\ Checked
     /\ last.importMeta.Module # last.importerMeta.Module
     /\ last.importMeta.Layer # NoLayer)
    => /\ Len(last.errors) =
            (IF ~(/\ last.importMeta.Layer = LayerInterfaces
                  /\ last.importerMeta.Layer = LayerInfrastructure)
             THEN 1 ELSE 0)
       /\ \A k \in 1..Len(last.errors) :
            /\ last.errors[k].format = "trying to import"
            /\ errors # <<>>
            /\ errors[Len(errors)] = last.errors[k]

\* an interfaces file importing the interfaces layer of another module: a violation
C2_Witness ==
    /\ Checked
    /\ last.importMeta.Module = modB
    /\ last.importerMeta.Module = modA
    /\ last.importerMeta.Layer = LayerInterfaces
    /\ last.importMeta.Layer = LayerInterfaces
    /\ Len(last.errors) = 1

\* C3: a failure of the discovery (an entry that cannot be walked, a file that
\* cannot be parsed) makes Validate return ok = false, no violation list and the
\* error.
C3_FatalErrorsReturned ==
    failure # "none"
    => /\ pc = "returned"
       /\ result.ok = FALSE
       /\ result.errors = <<>>
       /\ result.err \notin {"nil", "none yet"}

\* C4: a file whose classification has an empty Layer or an empty Module never
\* reaches ImportsLoop, and no violation of the run names it as the importer.
C4_UnclassifiableImporterSkipped ==
    /\ pc = "imports" => (importerMeta.Layer # NoLayer /\ importerMeta.Module # <<>>)
    /\ Checked => (last.importerMeta.Layer # NoLayer /\ last.importerMeta.Module # <<>>)
    /\ \A k \in 1..Len(discovered) :
         LET md == ParseLayerMetadata(discovered[k].path, alias)
         IN  (md.Layer = NoLayer \/ md.Module = <<>>)
             => \A j \in 1..Len(errors) : errors[j].path # discovered[k].path

\* a run that met the file domain/x.go (a Layer and no Module) and a file with no
\* Layer, each with an import that a classifiable importer could not make
C4_Witness ==
    /\ pc = "returned"
    /\ alias = StdAlias
    /\ ignoredPackages = <<>>
    /\ \E k \in 1..Len(discovered) :
         /\ discovered[k].path = Join2(domain, xGo)
         /\ discovered[k].imports # <<>>
    /\ \E k \in 1..Len(discovered) :
         /\ discovered[k].path = Join3(thirdparty, lib, xGo)
         /\ discovered[k].imports # <<>>

\* the violations of one file: those of its imports that no ignored string occurs
\* in, in declaration order
RECURSIVE ClaimImportViolations(_, _, _)
ClaimImportViolations(values, importer, p) ==
    IF values = <<>> THEN <<>>
    ELSE LET value == Head(values)
             importPath == trimQuotes(value)
             here == IF \E k \in 1..Len(ignoredPackages) : Contains(value, ignoredPackages[k])
                     THEN <<>>
                     ELSE importErrors(ParseLayerMetadata(importPath, alias), importPath,
                                       importer, p)
         IN  here \o ClaimImportViolations(Tail(values), importer, p)

\* the violations of a sequence of files, in discovery order
RECURSIVE ClaimViolations(_)
ClaimViolations(files) ==
    IF files = <<>> THEN <<>>
    ELSE LET e == Head(files)
             md == ParseLayerMetadata(e.path, alias)
             here == IF md.Layer = NoLayer \/ md.Module = <<>>
                     THEN <<>>
                     ELSE ClaimImportViolations(e.imports, md, e.path)
         IN  here \o ClaimViolations(Tail(files))

\* C5: what Validate returns is the concatenation, file by file in discovery
\* order and import by import in declaration order, of the violations of every
\* import that is not ignored of every classifiable file; none is lost after a
\* violation.
C5_ViolationsInOrder ==
    pc = "returned"
    => /\ result.errors = ClaimViolations(discovered)
       /\ result.ok = (ClaimViolations(discovered) = <<>>)
       /\ result.err = "nil"

\* two violations of one file followed by one of a later file
C5_Witness ==
    /\ pc = "returned"
    /\ Len(result.errors) >= 3
    /\ result.errors[1].path = result.errors[2].path
    /\ result.errors[1].importPath # result.errors[2].importPath
    /\ result.errors[2].path # result.errors[3].path

\* C6: an iteration of ImportsLoop on an import whose Path.Value contains an
\* ignored string records no violation and classifies nothing: errors, the cache
\* and the count of classifications stay as they are.
C6_IgnoredImportsExempt ==
    [][(/\ pc = "imports"
        /\ imports # <<>>
        /\ \E k \in 1..Len(ignoredPackages) : Contains(Head(imports), ignoredPackages[k]))
       => (/\ errors' = errors
           /\ filesMetadata' = filesMetadata
           /\ parseCalls' = parseCalls)]_vars

\* a domain file's import of its module's infrastructure layer was ignored, by an
\* ignored string that starts at the quote of the Path.Value, and is not cached
C6_Witness ==
    /\ last.kind = "ignored"
    /\ last.value = Quoted(Join3(modA, infra, db))
    /\ alias = StdAlias
    /\ importerMeta.Layer = LayerDomain
    /\ importerMeta.Module = modA
    /\ Join3(modA, infra, db) \notin DOMAIN filesMetadata
    /\ errors = <<>>

\* the deepest segment of p that is an alias key, and the segment before it
ClaimClassify(p, aliases) ==
    LET parts == Split(p, "/")
        hits == {i \in 1..Len(parts) : parts[i] \in DOMAIN aliases}
    IN  IF hits = {} THEN [Module |-> <<>>, Layer |-> NoLayer]
        ELSE LET i == CHOOSE j \in hits : \A k \in hits : k <= j
             IN  [Module |-> IF i = 1 THEN <<>> ELSE parts[i - 1],
                  Layer |-> aliases[parts[i]]]

\* C7: the metadata of a path has the Layer of the deepest segment equal to an
\* alias key and, as Module, the segment before that one (none when it is the
\* first); a path with no such segment has neither.
C7_ClassifierResult ==
    /\ \A p \in DOMAIN filesMetadata : filesMetadata[p] = ClaimClassify(p, alias)
    /\ Checked => last.importMeta = ClaimClassify(last.importPath, alias)

\* modA/domain/interfaces: two alias segments, the deeper one gives the Layer
C7_Witness ==
    /\ Checked
    /\ last.importPath = Join3(modA, domain, interfaces)
    /\ last.importMeta = [Module |-> domain, Layer |-> LayerInterfaces]
    /\ Join3(modA, domain, interfaces) \in DOMAIN filesMetadata

\* C8 as claimed: a path with a Layer and no Module is unclassifiable on both
\* sides: as the importer it is skipped, as the import target it records nothing.
C8_EmptyModuleUnclassifiable ==
    /\ pc = "imports" => importerMeta.Module # <<>>
    /\ (/\ Checked
        /\ last.importMeta.Layer # NoLayer
        /\ last.importMeta.Module = <<>>)
       => last.errors = <<>>

\* C8 amended: as the importer it is skipped; as the import target it is an
\* import of another module and records a violation unless it is the Interfaces
\* layer imported into the Infrastructure layer.
C8_EmptyModuleTargetIsCrossModule ==
    /\ pc = "imports" => importerMeta.Module # <<>>
    /\ \A k \in 1..Len(errors) : errors[k].path # Join2(domain, xGo)
    /\ (/\ Checked
        /\ last.importMeta.Layer # NoLayer
        /\ last.importMeta.Module = <<>>)
       => (last.errors = <<>>
           <=> (/\ last.importMeta.Layer = LayerInterfaces
                /\ last.importerMeta.Layer = LayerInfrastructure))

\* the application file's import of domain/user (a Layer and no Module) recorded a
\* violation, in a run that had skipped the file domain/x.go
C8_Witness ==
    /\ Checked
    /\ last.importPath = Join2(domain, user)
    /\ last.importMeta = [Module |-> <<>>, Layer |-> LayerDomain]
    /\ last.importerMeta.Layer = LayerApplication
    /\ Len(last.errors) = 1
    /\ discovered[1].path = Join2(domain, xGo)

\* C9 as claimed: the cache is discarded when the run ends: it is empty once
\* Validate has returned and when the next Validate starts.
C9_CacheDiscardedAtReturn ==
    /\ pc = "returned" => DOMAIN filesMetadata = {}
    /\ (pc = "walk" /\ discovered = <<>>) => DOMAIN filesMetadata = {}

\* C9 amended: the cache lives as long as the Validator: every path classified
\* since NewValidator is still cached, in particular every file of a run that has
\* returned, and so the next Validate starts with them.
C9_CacheKeptAcrossRuns ==
    /\ DOMAIN filesMetadata = DOMAIN parseCalls
    /\ pc = "returned" =>
         \A k \in 1..Len(discovered) : discovered[k].path \in DOMAIN filesMetadata

\* a second Validate has started and the cache holds what the first left
C9_Witness ==
    /\ run = 2
    /\ pc = "walk"
    /\ discovered = <<>>
    /\ Join3(modA, domain, userGo) \in DOMAIN filesMetadata
    /\ Join3(modB, domain, entity) \in DOMAIN filesMetadata

\* C10: every cache entry is the classification of its key, no path is
\* classified twice, and a step never changes or removes an entry.
C10_CacheCoherence ==
    /\ [](/\ \A p \in DOMAIN filesMetadata : filesMetadata[p] = ParseLayerMetadata(p, alias)
          /\ \A p \in DOMAIN parseCalls : parseCalls[p] <= 1)
    /\ [][\A p \in DOMAIN filesMetadata :
            /\ p \in DOMAIN filesMetadata'
            /\ filesMetadata'[p] = filesMetadata[p]]_vars

\* modB/domain/entity, imported by two files of one run, was classified once
C10_Witness ==
    /\ pc = "returned"
    /\ ignoredPackages = <<>>
    /\ Len(discovered) = 2
    /\ {discovered[1].path, discovered[2].path} =
          {Join3(modA, domain, userGo), Join3(modA, infra, gatewayGo)}
    /\ Len(errors) = 3
    /\ parseCalls[Join3(modB, domain, entity)] = 1

====
